---- MODULE Spec2Model ----
(***************************************************************************)
(* A model of gar.py, the Seaward GAR container debug harness:             *)
(*   - marsaglia_xorshift_128, the xorshift keystream generator,           *)
(*   - deobfuscate_string, the additive stream decoder,                    *)
(*   - gar_extract, the container / record walker.                         *)
(*                                                                         *)
(* Python integers are unbounded, and the generator's words use all 32     *)
(* bits, so an integer that takes part in a bitwise operation is held as   *)
(* the set of the positions of its 1 bits (bit 0 is the least significant).*)
(* XOR is then symmetric difference, a shift moves the positions, and a    *)
(* mask keeps the positions below its width.                               *)
(*                                                                         *)
(* Three specifications:                                                   *)
(*   Spec     gar_extract run on one container file,                       *)
(*   GenSpec  two generator objects asked for values in any interleaving,  *)
(*   DeobSpec one generator object and calls of deobfuscate_string.        *)
(***************************************************************************)
EXTENDS Integers, Sequences, FiniteSets

VARIABLES
    data,        \* the bytes of the file gar_extract opens
    pos,         \* the file object's read position
    pc,          \* where gar_extract is: open, loop, sliced, unpacked, done, failed
    err,         \* the exception that ended gar_extract, or NoError
    files,       \* the local counter `files`
    rec,         \* the locals of the current loop iteration
    envelope,    \* header_length, compression_method, checksum, payload_length
    steps,       \* what gar_extract has done with the current record, in order
    printed,     \* the lines gar_extract has printed, as tuples of their arguments
    gens,        \* the generator objects: seed, suspended locals, values yielded
    lastCall     \* the last call of deobfuscate_string: argument, result, generator

vars == <<data, pos, pc, err, files, rec, envelope, steps, printed, gens, lastCall>>

extractVars == <<data, pos, pc, err, files, rec, envelope, steps, printed>>
genVars == <<gens, lastCall>>

----------------------------------------------------------------------------
(* Bounds of the model. *)

\* the number of complete records in a generated container
MaxRecords == 1
\* the number of values one generator object is asked for
MaxSteps == 4
\* the length of a string handed to deobfuscate_string
MaxLen == 2

----------------------------------------------------------------------------
(* Python integers as sets of bit positions. *)

\* the bit set of a literal below 2^31
Bits(n) == {i \in 0..30 : (n \div (2 ^ i)) % 2 = 1}

RECURSIVE SumPow2(_, _)
SumPow2(b, i) == IF i < 0 THEN 0
                 ELSE (IF i \in b THEN 2 ^ i ELSE 0) + SumPow2(b, i - 1)

\* the number a bit set below 2^31 stands for
ToInt(b) == SumPow2(b, 30)

\* the number the low 8 bits of a bit set stand for
LowByte(b) == SumPow2(b, 7)

\* a ^ b
Xor(a, b) == (a \ b) \cup (b \ a)
\* a << k
Shl(a, k) == {i + k : i \in a}
\* a >> k
Shr(a, k) == {i - k : i \in {j \in a : j >= k}}
\* a & (2^k - 1)
Mask(a, k) == {i \in a : i < k}

Min(a, b) == IF a < b THEN a ELSE b

----------------------------------------------------------------------------
(* marsaglia_xorshift_128 *)

\* the default arguments of marsaglia_xorshift_128
DefaultSeed == <<Bits(123456789), Bits(362436069), Bits(521288629), Bits(88675123)>>

\* a generator object just constructed: the arguments bound, nothing run yet.
\* st holds the suspended frame's x, y, z, w; out is the log of the values
\* the object has yielded so far
NewGenerator(seed) ==
    [seed |-> seed,
     st   |-> [x |-> seed[1], y |-> seed[2], z |-> seed[3], w |-> seed[4]],
     out  |-> <<>>]

\* the same step with the 32-bit mask on t forgotten
XorshiftStep_unmasked(s) ==
    LET t == Xor(s.x, Shl(s.x, 11))
    IN  [x |-> s.y, y |-> s.z, z |-> s.w,
         w |-> Xor(Xor(s.w, Shr(s.w, 19)), Xor(t, Shr(t, 8)))]

\* one pass of the while loop, up to the yield: the value yielded is the new w
XorshiftStep(s) ==
    LET t == Mask(Xor(s.x, Shl(s.x, 11)), 32)
    IN  [x |-> s.y, y |-> s.z, z |-> s.w,
         w |-> Xor(Xor(s.w, Shr(s.w, 19)), Xor(t, Shr(t, 8)))]

\* a generator that starts over from its arguments on every request
pnr_next_restart(pnr) ==
    LET s == XorshiftStep(NewGenerator(pnr.seed).st)
    IN  [pnr EXCEPT !.st = s, !.out = Append(@, s.w)]

\* pnr.next(): the frame resumes, runs one pass and suspends at the yield
pnr_next(pnr) ==
    LET s == XorshiftStep(pnr.st)
    IN  [pnr EXCEPT !.st = s, !.out = Append(@, s.w)]

\* the value the last pnr.next() returned
Yielded(pnr) == pnr.out[Len(pnr.out)]

----------------------------------------------------------------------------
(* deobfuscate_string *)

\* (ord(c) - k) & 0xff: the low 8 bits of the two's complement difference,
\* which depend on the low 8 bits of k alone
SubAnd0xff(c, k) == (c - LowByte(k)) % 256

\* the same decoder with XOR in place of the subtraction
RECURSIVE deobfuscate_string_xor(_, _)
deobfuscate_string_xor(pnr, obfuscated) ==
    IF obfuscated = <<>> THEN [plain |-> <<>>, pnr |-> pnr]
    ELSE LET p == pnr_next(pnr)
             c == ToInt(Xor(Bits(Head(obfuscated)), Mask(Yielded(p), 8)))
             r == deobfuscate_string_xor(p, Tail(obfuscated))
         IN  [plain |-> <<c>> \o r.plain, pnr |-> r.pnr]

\* the same decoder walking the string from its last character
RECURSIVE deobfuscate_string_reversed(_, _)
deobfuscate_string_reversed(pnr, obfuscated) ==
    IF obfuscated = <<>> THEN [plain |-> <<>>, pnr |-> pnr]
    ELSE LET n == Len(obfuscated)
             p == pnr_next(pnr)
             c == SubAnd0xff(obfuscated[n], Yielded(p))
             r == deobfuscate_string_reversed(p, SubSeq(obfuscated, 1, n - 1))
         IN  [plain |-> r.plain \o <<c>>, pnr |-> r.pnr]

\* the list comprehension: for each character in order, one pnr.next() and one
\* subtraction; the result, and the generator as the call leaves it
RECURSIVE deobfuscate_string(_, _)
deobfuscate_string(pnr, obfuscated) ==
    IF obfuscated = <<>> THEN [plain |-> <<>>, pnr |-> pnr]
    ELSE LET p == pnr_next(pnr)
             c == SubAnd0xff(Head(obfuscated), Yielded(p))
             r == deobfuscate_string(p, Tail(obfuscated))
         IN  [plain |-> <<c>> \o r.plain, pnr |-> r.pnr]

\* the writer's side of the format, as the file's notes give it: each byte has
\* the bottom 8 bits of the next generator value added to it
RECURSIVE Obfuscate(_, _)
Obfuscate(pnr, plaintext) ==
    IF plaintext = <<>> THEN <<>>
    ELSE LET p == pnr_next(pnr)
         IN  <<(Head(plaintext) + LowByte(Yielded(p))) % 256>>
             \o Obfuscate(p, Tail(plaintext))

----------------------------------------------------------------------------
(* gar_extract *)

NoError == [type |-> "none", line |-> 0]
NoRecord == [start |-> 0, sub_filename_length |-> 0, sub_filename |-> <<>>,
             compressed_length |-> 0, at |-> 0, contents |-> <<>>]
NoEnvelope == [header_length |-> 0, compression_method |-> 0,
               checksum |-> {}, payload_length |-> {}]

\* the container side before gar_extract is called
ExtractIdle ==
    /\ data = <<>>
    /\ pos = 0
    /\ pc = "idle"
    /\ err = NoError
    /\ files = 0
    /\ rec = NoRecord
    /\ envelope = NoEnvelope
    /\ steps = <<>>
    /\ printed = <<>>

\* the generator side is idle while gar_extract runs: it builds no generator
GenIdle ==
    /\ gens = <<>>
    /\ lastCall = [g |-> 0, obfuscated |-> <<>>, plain |-> <<>>, start |-> 0]

\* f.read(n) at position p: up to n bytes, fewer at the end of the file
Read(p, n) == SubSeq(data, p + 1, Min(p + n, Len(data)))

\* struct.unpack of one big-endian unsigned field, as a bit set: for the
\* fields that may use all 32 bits of their word
UnpackBits(s) ==
    {k \in 0..(8 * Len(s) - 1) : (s[Len(s) - (k \div 8)] \div (2 ^ (k % 8))) % 2 = 1}

\* struct.unpack of one big-endian unsigned field below 2^31, as a number
RECURSIVE UnpackBE(_)
UnpackBE(s) ==
    IF s = <<>> THEN 0
    ELSE 256 * UnpackBE(SubSeq(s, 1, Len(s) - 1)) + s[Len(s)]

\* the file-header test with the version forgotten
OpenOutcome_magic_only(s) ==
    IF Len(s) < 4 THEN [type |-> "struct.error", line |-> 75]
    ELSE LET header == UnpackBits(s)
             cabcab == Shr(header, 8)
         IN  IF cabcab = Bits(13286571)
             THEN NoError
             ELSE [type |-> "AssertionError", line |-> 78]

\* lines 75-78 on the four bytes read: the exception raised, or NoError.
\* 13286571 is 0xcabcab
OpenOutcome(s) ==
    IF Len(s) < 4 THEN [type |-> "struct.error", line |-> 75]
    ELSE LET header == UnpackBits(s)
             cabcab == Shr(header, 8)
             version == Mask(header, 8)
         IN  IF cabcab = Bits(13286571) /\ version = Bits(1)
             THEN NoError
             ELSE [type |-> "AssertionError", line |-> 78]

\* lines 74-79: open the file, read and test the file header
OpenHeader ==
    /\ pc = "open"
    /\ LET s == Read(pos, 4)
           e == OpenOutcome(s)
       IN  /\ pos' = pos + Len(s)
           /\ err' = e
           /\ IF e = NoError
              THEN pc' = "loop" /\ files' = 1
              ELSE pc' = "failed" /\ files' = files
    /\ UNCHANGED <<data, rec, envelope, steps, printed, genVars>>

\* the loop's exit test with an all-zero length word taken as an end marker
NoMorePackets_sentinel(s) == Len(s) < 4 \/ s = <<0, 0, 0, 0>>

\* line 83: there is no end-of-file marker, just no more packets
NoMorePackets(s) == Len(s) < 4

\* lines 81-87: read the record header and slice the payload out of the file
ReadRecord ==
    /\ pc = "loop"
    /\ LET s == Read(pos, 4)
       IN  IF NoMorePackets(s)
           THEN /\ pc' = "done"
                /\ pos' = pos + Len(s)
                /\ UNCHANGED <<err, rec, steps>>
           ELSE LET sub_filename_length == UnpackBE(s)
                    sub_filename == Read(pos + 4, sub_filename_length)
                    p2 == pos + 4 + Len(sub_filename)
                    t == Read(p2, 4)
                IN  IF Len(t) < 4
                    THEN /\ pc' = "failed"
                         /\ err' = [type |-> "struct.error", line |-> 86]
                         /\ pos' = p2 + Len(t)
                         /\ rec' = [NoRecord EXCEPT
                                      !.start = pos,
                                      !.sub_filename_length = sub_filename_length,
                                      !.sub_filename = sub_filename]
                         /\ steps' = <<>>
                    ELSE LET compressed_length == UnpackBE(t)
                             contents == Read(p2 + 4, compressed_length)
                         IN  /\ pc' = "sliced"
                             /\ err' = err
                             /\ pos' = p2 + 4 + Len(contents)
                             /\ rec' = [start |-> pos,
                                        sub_filename_length |-> sub_filename_length,
                                        sub_filename |-> sub_filename,
                                        compressed_length |-> compressed_length,
                                        at |-> p2 + 4,
                                        contents |-> contents]
                             /\ steps' = <<"slice">>
    /\ UNCHANGED <<data, files, envelope, printed, genVars>>

\* the bytes struct.unpack is handed, run through the decoder first, with a
\* generator built from the default arguments
EnvelopeBytes_deobfuscated(contents) ==
    SubSeq(deobfuscate_string(NewGenerator(DefaultSeed), contents).plain,
           1, Min(12, Len(contents)))

\* contents[:12], the bytes struct.unpack is handed: the payload as read
EnvelopeBytes(contents) == SubSeq(contents, 1, Min(12, Len(contents)))

\* the envelope test with `or` written for `and`
EnvelopeOK_or(header_length, compression_method) ==
    header_length = 12 \/ compression_method = 1

\* line 89: the condition of the assert
EnvelopeOK(header_length, compression_method) ==
    header_length = 12 /\ compression_method = 1

\* lines 88-89: unpack the 12-byte envelope and test it
UnpackEnvelope ==
    /\ pc = "sliced"
    /\ steps' = Append(steps, "unpack")
    /\ LET b == EnvelopeBytes(rec.contents)
       IN  IF Len(b) < 12
           THEN /\ pc' = "failed"
                /\ err' = [type |-> "struct.error", line |-> 88]
                /\ envelope' = envelope
           ELSE LET e == [header_length |-> UnpackBE(SubSeq(b, 1, 2)),
                          compression_method |-> UnpackBE(SubSeq(b, 3, 4)),
                          checksum |-> UnpackBits(SubSeq(b, 5, 8)),
                          payload_length |-> UnpackBits(SubSeq(b, 9, 12))]
                IN  /\ envelope' = e
                    /\ IF EnvelopeOK(e.header_length, e.compression_method)
                       THEN pc' = "unpacked" /\ err' = err
                       ELSE /\ pc' = "failed"
                            /\ err' = [type |-> "AssertionError", line |-> 89]
    /\ UNCHANGED <<data, pos, files, rec, printed, genVars>>

\* lines 90-112: print the record's line, take the histogram (which changes
\* nothing), count the file. The percentage divides by payload_length, and
\* the line is printed only once all its arguments are evaluated. Of the
\* line's arguments the difference and the percentage are left out: they
\* are functions of the others. checksum and payload_length are bit sets
Report ==
    /\ pc = "unpacked"
    /\ IF envelope.payload_length = {}
       THEN /\ pc' = "failed"
            /\ err' = [type |-> "ZeroDivisionError", line |-> 96]
            /\ UNCHANGED <<files, printed>>
       ELSE /\ pc' = "loop"
            /\ err' = err
            /\ printed' = Append(printed,
                  [sub_filename |-> rec.sub_filename,
                   sub_filename_length |-> rec.sub_filename_length,
                   compressed_length |-> rec.compressed_length,
                   payload_length |-> envelope.payload_length,
                   checksum |-> envelope.checksum])
            /\ files' = files + 1
    /\ UNCHANGED <<data, pos, rec, envelope, steps, genVars>>

----------------------------------------------------------------------------
(* The container files gar_extract is run on. *)

\* a length below 256 as a big-endian field of k bytes
PackBE(n, k) == [i \in 1..k |-> IF i = k THEN n ELSE 0]

\* file headers: 0xcabcab and version 1, and words that differ in one or more
\* of the four bytes (202 = 0xca, 188 = 0xbc, 171 = 0xab, 170 = 0xaa)
HeaderWords ==
    {<<a, b, c, v>> : a \in {202, 170}, b \in {188, 170}, c \in {171, 170},
                      v \in {0, 1, 2}}

GoodHeader == <<202, 188, 171, 1>>

\* envelopes that pass the test of line 89, and envelopes that differ from
\* them in header_length or compression_method, in the low or the high byte
GoodEnvelope == PackBE(12, 2) \o PackBE(1, 2)
BadEnvelopes ==
    {PackBE(11, 2) \o PackBE(1, 2), PackBE(12, 2) \o PackBE(2, 2), <<1, 12, 0, 1>>}

\* payloads: envelope, checksum, uncompressed length (zero or not), and the
\* start of a stream or nothing
Payloads ==
    {GoodEnvelope \o PackBE(7, 4) \o PackBE(n, 4) \o x :
        n \in {0, 5}, x \in {<<>>, <<9>>}}
    \cup {e \o PackBE(7, 4) \o PackBE(5, 4) \o <<9>> : e \in BadEnvelopes}

\* complete records: filename length, filename, payload length, payload
Records ==
    {PackBE(Len(name), 4) \o name \o PackBE(Len(c), 4) \o c :
        name \in {<<>>, <<65>>}, c \in Payloads}

RECURSIVE RecordRuns(_)
RecordRuns(n) ==
    IF n = 0 THEN {<<>>}
    ELSE LET shorter == RecordRuns(n - 1)
         IN  shorter \cup {r \o one : r \in {q \in shorter : Len(q) > 0 \/ n = 1},
                                     one \in Records}

Prefixes(s) == {SubSeq(s, 1, k) : k \in 0..Len(s)}

\* what follows the last complete record: nothing, a record cut short at any
\* byte, or zero bytes
Endings ==
    UNION {Prefixes(r) : r \in Records} \cup Prefixes(<<0, 0, 0, 0, 0>>)

Files ==
    {GoodHeader \o body \o ending : body \in RecordRuns(MaxRecords), ending \in Endings}
    \cup {h \o ending : h \in HeaderWords, ending \in {<<>>, <<0, 0, 0, 0>>}}
    \cup Prefixes(GoodHeader)

Init ==
    /\ data \in Files
    /\ pos = 0
    /\ pc = "open"
    /\ err = NoError
    /\ files = 0
    /\ rec = NoRecord
    /\ envelope = NoEnvelope
    /\ steps = <<>>
    /\ printed = <<>>
    /\ GenIdle

Next ==
    \/ OpenHeader
    \/ ReadRecord
    \/ UnpackEnvelope
    \/ Report

Spec == Init /\ [][Next]_vars

----------------------------------------------------------------------------
(* Properties of gar_extract, checked under Spec. *)

\* the file header as the file holds it
HeaderRead == pc # "open" /\ Len(data) >= 4
MagicOK(h) == h[1] = 202 /\ h[2] = 188 /\ h[3] = 171
VersionOK(h) == h[4] = 1
HeaderBytes == SubSeq(data, 1, 4)
OpenFailed == pc = "failed" /\ err.line \in {75, 78}

\* C1 (as amended): once the four header bytes are read, gar_extract goes on
\* exactly when the top 24 bits are 0xCABCAB and the low byte is 1; every
\* other header word ends it with the one AssertionError of line 78,
\* whichever of the two tests failed.
C1_OpenIffMagicAndVersion ==
    HeaderRead =>
       /\ ~OpenFailed <=> (MagicOK(HeaderBytes) /\ VersionOK(HeaderBytes))
       /\ OpenFailed => err = [type |-> "AssertionError", line |-> 78]

\* C1 witness: a header with the right magic and version 2 has been refused.
C1_Witness ==
    /\ HeaderRead /\ OpenFailed
    /\ MagicOK(HeaderBytes) /\ HeaderBytes[4] = 2

\* C1 (original): as above, and the outcome of a wrong magic differs from
\* the outcome of every header with the right magic and a wrong version
\* (BadMagic against UnsupportedVersion).
C1_Original_DistinctFailures ==
    HeaderRead =>
       /\ ~OpenFailed <=> (MagicOK(HeaderBytes) /\ VersionOK(HeaderBytes))
       /\ (OpenFailed /\ ~MagicOK(HeaderBytes)) =>
             \A h \in HeaderWords :
                (MagicOK(h) /\ ~VersionOK(h)) => OpenOutcome(h) # err

\* the current record's payload as the file holds it
PayloadLeft == Len(data) - rec.at
Truncated == steps # <<>> /\ rec.compressed_length > PayloadLeft
RawByte(i) == data[rec.at + i]
RawEnvelopeOK ==
    /\ PayloadLeft >= 4 /\ rec.compressed_length >= 4
    /\ 256 * RawByte(1) + RawByte(2) = 12
    /\ 256 * RawByte(3) + RawByte(4) = 1
Unpacked == Len(steps) = 2

\* C2: a record whose declared compressed_length exceeds the bytes left in
\* the file ends the extraction with an error on that record: the record
\* is never accepted or reported, and the loop never goes on past it.
C2_TruncatedPayloadFails ==
    Truncated => pc \in {"sliced", "failed"}

\* C3: extraction ends normally exactly at the top of the loop with fewer
\* than 4 bytes left; no value of a 4-byte length word ends it; a file of
\* the header alone ends with nothing printed and no error.
C3_EndsOnlyOnShortRead ==
    [][ /\ (pc = "loop" /\ Len(data) - pos < 4) =>
              (pc' = "done" /\ err' = NoError /\ printed' = printed)
        /\ (pc' = "done" /\ pc # "done") =>
              (pc = "loop" /\ Len(data) - pos < 4)
        /\ (pc = "loop" /\ Len(data) - pos >= 4) => pc' # "done"
        /\ (pc' = "done" /\ Len(data) = 4) => (printed' = <<>> /\ files' = 1)
      ]_vars

\* C3 witness: the file of the header alone has been read to its end.
C3_Witness ==
    pc = "done" /\ Len(data) = 4 /\ printed = <<>> /\ err = NoError

\* C6: once the envelope of a record has been unpacked, a header_length
\* other than 12 or a compression_method other than 1 (taken from the
\* payload's bytes 0-1 and 2-3, big-endian) has ended the extraction with
\* an error: the AssertionError of line 89 when the 12 bytes are there.
C6_BadEnvelopeRejected ==
    (Unpacked /\ ~RawEnvelopeOK) =>
       /\ pc = "failed"
       /\ err.type \in {"AssertionError", "struct.error"}
       /\ err.line \in {88, 89}
       /\ Len(rec.contents) >= 12 => err = [type |-> "AssertionError", line |-> 89]

\* C6 witness: a record with header_length 12 and compression_method 2 has
\* been refused by the assert.
C6_Witness ==
    /\ Unpacked /\ Len(rec.contents) >= 12
    /\ 256 * RawByte(1) + RawByte(2) = 12
    /\ 256 * RawByte(3) + RawByte(4) = 2
    /\ pc = "failed" /\ err.line = 89

\* the value of the big-endian field at payload bytes i..j, as a bit set
RawField(i, j) ==
    {k \in 0..(8 * (j - i + 1) - 1) :
        (RawByte(j - (k \div 8)) \div (2 ^ (k % 8))) % 2 = 1}
EnvelopeRead == Unpacked /\ Len(rec.contents) >= 12

\* C7 (as amended): for every record, the payload is sliced and then the
\* four envelope fields are unpacked from the first 12 bytes of the payload
\* exactly as the file holds them: gar_extract builds no generator and runs
\* no decoder before it reads them.
C7_EnvelopeFromRawPayload ==
    EnvelopeRead =>
       /\ steps = <<"slice", "unpack">>
       /\ gens = <<>>
       /\ envelope.header_length = 256 * RawByte(1) + RawByte(2)
       /\ envelope.compression_method = 256 * RawByte(3) + RawByte(4)
       /\ envelope.checksum = RawField(5, 8)
       /\ envelope.payload_length = RawField(9, 12)

\* C7 witness: an envelope has been read and accepted from a payload.
C7_Witness ==
    /\ EnvelopeRead /\ pc = "unpacked"
    /\ envelope.header_length = 12 /\ envelope.payload_length = {0, 2}

\* C7 (original): whenever the envelope fields of a record are read, a
\* generator has been seeded and the payload run through the decoder first.
C7_Original_DeobfuscatedFirst ==
    EnvelopeRead =>
       /\ gens # <<>>
       /\ \E i, j, k \in 1..Len(steps) :
             /\ i < j /\ j < k
             /\ steps[i] = "seed" /\ steps[j] = "deobfuscate" /\ steps[k] = "unpack"

\* C10: a record that is all there, with header_length 12 and
\* compression_method 1, never ends the extraction with an error, whatever
\* its uncompressed length.
C10_CompleteRecordAccepted ==
    (/\ Unpacked /\ ~Truncated
     /\ rec.compressed_length >= 12
     /\ RawEnvelopeOK) => pc # "failed"

----------------------------------------------------------------------------
(* The generator specifications.                                           *)
(*   GenSpec   two generator objects, each asked for values one at a time, *)
(*             in any interleaving;                                        *)
(*   DeobSpec  one generator object, asked for values directly and through *)
(*             calls of deobfuscate_string.                                *)

\* seed words: zero and 2^32 - 1. Seeds holds the defaults, uniform and mixed
\* 32-bit seeds, and one seed with words wider than 32 bits
SeedWords == {{}, 0..31}

Seeds ==
    {DefaultSeed}
    \cup {<<a, a, a, a>> : a \in SeedWords}
    \cup {<<0..31, {}, {31}, {0, 21, 31}>>,
          <<Bits(2014), Bits(1204), DefaultSeed[3], DefaultSeed[4]>>,
          <<{40}, {}, {0, 33}, {1}>>}

\* byte values handed to the decoder
ByteSamples == {0, 1, 255}

Strings == UNION {[1..n -> ByteSamples] : n \in 0..MaxLen}

NoCall == [g |-> 0, obfuscated |-> <<>>, plain |-> <<>>, start |-> 0]

\* two generator objects, constructed with any two seeds
GenInit ==
    /\ \E s1 \in Seeds : \E s2 \in Seeds :
          gens = [g \in {1, 2} |-> NewGenerator(IF g = 1 THEN s1 ELSE s2)]
    /\ lastCall = NoCall
    /\ ExtractIdle

\* one generator object
DeobInit ==
    /\ \E s \in Seeds : gens = [g \in {1} |-> NewGenerator(s)]
    /\ lastCall = NoCall
    /\ ExtractIdle

\* a caller asks generator g for its next value
GenNextValue(g) ==
    /\ Len(gens[g].out) < MaxSteps
    /\ gens' = [gens EXCEPT ![g] = pnr_next(@)]
    /\ UNCHANGED <<lastCall, extractVars>>

\* deobfuscate_string(pnr, obfuscated) with pnr the generator g. The strings
\* handed in are the samples and what the writer makes of a sample with a
\* generator built from the same arguments
Deobfuscate(g) ==
    \E sample \in Strings : \E written \in BOOLEAN :
       /\ Len(gens[g].out) + Len(sample) <= MaxSteps
       /\ LET obfuscated == IF written
                            THEN Obfuscate(NewGenerator(gens[g].seed), sample)
                            ELSE sample
              r == deobfuscate_string(gens[g], obfuscated)
          IN  /\ gens' = [gens EXCEPT ![g] = r.pnr]
              /\ lastCall' = [g |-> g, obfuscated |-> obfuscated,
                              plain |-> r.plain, start |-> Len(gens[g].out)]
       /\ UNCHANGED extractVars

GenNext == \E g \in DOMAIN gens : GenNextValue(g)

GenSpec == GenInit /\ [][GenNext]_vars

DeobNext ==
    \/ \E g \in DOMAIN gens : GenNextValue(g)
    \/ \E g \in DOMAIN gens : Deobfuscate(g)

DeobSpec == DeobInit /\ [][DeobNext]_vars

----------------------------------------------------------------------------
(* Properties of the generator and the decoder. *)

\* the frame of a generator built from seed after n requests
RECURSIVE StateAfter(_, _)
StateAfter(seed, n) ==
    IF n = 0 THEN NewGenerator(seed).st ELSE XorshiftStep(StateAfter(seed, n - 1))

\* C5 (GenSpec): under every interleaving of requests, the i-th value a
\* generator has yielded is the i-th value of the sequence its own seed
\* fixes (no restart, nothing shared), so two generators with the same seed
\* agree on every value both have yielded.
C5_SameSeedSameSequence ==
    /\ \A g \in DOMAIN gens : \A i \in 1..Len(gens[g].out) :
          gens[g].out[i] = StateAfter(gens[g].seed, i).w
    /\ \A g, h \in DOMAIN gens :
          gens[g].seed = gens[h].seed =>
             \A i \in 1..Min(Len(gens[g].out), Len(gens[h].out)) :
                gens[g].out[i] = gens[h].out[i]

\* C5 witness: two generators with the default seed, one three values
\* ahead of the other, and the values are not all the same.
C5_Witness ==
    /\ DOMAIN gens = {1, 2}
    /\ gens[1].seed = DefaultSeed /\ gens[2].seed = DefaultSeed
    /\ Len(gens[1].out) = 1 /\ Len(gens[2].out) = 4
    /\ gens[2].out[1] # gens[2].out[2]

\* the step function as the format's description gives it: t and w both
\* truncated to 32 bits
ReferenceStep(s) ==
    LET t == Mask(Xor(s.x, Shl(s.x, 11)), 32)
    IN  [x |-> s.y, y |-> s.z, z |-> s.w,
         w |-> Mask(Xor(Xor(Xor(s.w, Shr(s.w, 19)), t), Shr(t, 8)), 32)]

RECURSIVE ReferenceAfter(_, _)
ReferenceAfter(seed, n) ==
    IF n = 0 THEN [x |-> seed[1], y |-> seed[2], z |-> seed[3], w |-> seed[4]]
    ELSE ReferenceStep(ReferenceAfter(seed, n - 1))

Is32Bit(word) == word \subseteq 0..31

\* C8 (GenSpec): for a seed of four 32-bit words, every value yielded is the
\* w of the reference step function, and x, y, z, w stay 32-bit words after
\* every step.
C8_MatchesReferenceIn32Bits ==
    \A g \in DOMAIN gens :
       (\A k \in 1..4 : Is32Bit(gens[g].seed[k])) =>
          /\ gens[g].st = ReferenceAfter(gens[g].seed, Len(gens[g].out))
          /\ \A i \in 1..Len(gens[g].out) :
                gens[g].out[i] = ReferenceAfter(gens[g].seed, i).w
          /\ Is32Bit(gens[g].st.x) /\ Is32Bit(gens[g].st.y)
          /\ Is32Bit(gens[g].st.z) /\ Is32Bit(gens[g].st.w)

\* C8 witness: a generator whose seed has bits 21 and above set in x, so
\* that x << 11 passes bit 31, has yielded four values, the top bit among them.
C8_Witness ==
    \E g \in DOMAIN gens :
       /\ gens[g].seed[1] = 0..31
       /\ Len(gens[g].out) = 4
       /\ \E i \in 1..4 : 31 \in gens[g].out[i]

\* C9 (DeobSpec): a call of deobfuscate_string on a string of length n
\* leaves the generator n values further, continuing its sequence where it
\* stood, and returns n bytes, the i-th being the i-th argument byte minus
\* the low byte of the i-th value yielded during the call, modulo 256.
C9_OneValuePerByteInOrder ==
    [][ lastCall' # lastCall =>
          LET c == lastCall'
              before == gens[c.g]
              after == gens'[c.g]
              n == Len(c.obfuscated)
          IN  /\ c.start = Len(before.out)
              /\ Len(after.out) = c.start + n
              /\ SubSeq(after.out, 1, c.start) = before.out
              /\ after.st = StateAfter(after.seed, c.start + n)
              /\ Len(c.plain) = n
              /\ \A i \in 1..n :
                    /\ after.out[c.start + i] = StateAfter(after.seed, c.start + i).w
                    /\ c.plain[i] =
                          (c.obfuscated[i] - LowByte(after.out[c.start + i])) % 256
      ]_vars

\* C9 witness: a call on a generator that had already yielded values has
\* returned two bytes that differ from the bytes handed in.
C9_Witness ==
    /\ lastCall.g # 0 /\ lastCall.start > 0
    /\ Len(lastCall.obfuscated) = 2
    /\ lastCall.obfuscated[1] # lastCall.obfuscated[2]
    /\ lastCall.plain[1] # lastCall.obfuscated[1]
    /\ lastCall.plain[2] # lastCall.obfuscated[2]

\* C4 (DeobSpec): whatever a fresh generator's decoder is handed, if it is
\* the writer's obfuscation of a string p under the same seed, the decoder
\* returns p.
C4_RoundTrip ==
    (lastCall.g # 0 /\ lastCall.start = 0) =>
       \A p \in Strings :
          Obfuscate(NewGenerator(gens[lastCall.g].seed), p) = lastCall.obfuscated
             => lastCall.plain = p

\* C4 witness: the decoder has been handed the obfuscation of <<255, 1>>,
\* which wraps past 255, and has returned <<255, 1>>.
C4_Witness ==
    /\ lastCall.g # 0 /\ lastCall.start = 0
    /\ lastCall.obfuscated =
          Obfuscate(NewGenerator(gens[lastCall.g].seed), <<255, 1>>)
    /\ lastCall.obfuscated[1] < 255
    /\ lastCall.plain = <<255, 1>>

====
